---- MODULE Spec2Model ----
(***************************************************************************)
(* BuildBloatBuster: the quarantine lifecycle (internal/erase, cmd/restore, *)
(* cmd/purge), the concurrent size aggregator (internal/size) and the tree  *)
(* scanner (internal/scan), as state machines.                              *)
(*                                                                          *)
(* Three specifications share the module:                                   *)
(*   Spec      the quarantine store: quarantine, list, restore, purge       *)
(*   SpecSize  Calculator.CalculateSizes: producer, workers, cancellation   *)
(*   SpecScan  Scanner.ScanPaths over a directory tree                      *)
(* Each one holds the other two subsystems' variables at their idle values. *)
(***************************************************************************)
EXTENDS Integers, Sequences, FiniteSets, TLC

(***************************************************************************)
(* Bounds of the model.                                                     *)
(***************************************************************************)
\* The clock runs from 0 to MaxTime ticks.
MaxTime == 3
\* Clock ticks per second: time.Now() is finer than the one-second stamp.
TicksPerSecond == 2
\* Seconds per day, scaled down so that a day fits into MaxTime.
SecondsPerDay == 1
\* Disturbances over a whole run: filesystem calls that fail, and entries the
\* environment creates at an original path.
MaxDisturbances == 1
\* Largest value of the purge command's --days flag.
MaxDays == 1

TicksPerDay == SecondsPerDay * TicksPerSecond

\* CalculateSizes is called with MaxCandidates candidates at most, on a
\* calculator built for MaxConcurrency workers at most (or for the default).
MaxCandidates == 2
MaxConcurrency == 2

\* A scan has MaxRoots configured roots at most, and maxDepth is MaxScanDepth at most.
MaxRoots == 2
MaxScanDepth == 2

(***************************************************************************)
(* Path strings. A string is a sequence of tokens; "/" is the separator     *)
(* token and every other token is a piece of a name. No name token is a     *)
(* textual prefix of another, so token-wise prefix is strings.HasPrefix.    *)
(***************************************************************************)
Separator == "/"

HasPrefix(s, prefix) ==
    /\ Len(prefix) <= Len(s)
    /\ SubSeq(s, 1, Len(prefix)) = prefix

\* filepath.Join(dir, name) for clean operands.
Join(dir, name) == dir \o <<Separator>> \o name

\* Index of the last separator of a clean path (0 when it has none).
LastSeparator(path) ==
    IF \E i \in 1..Len(path) : path[i] = Separator
    THEN CHOOSE i \in 1..Len(path) :
            /\ path[i] = Separator
            /\ \A j \in (i+1)..Len(path) : path[j] # Separator
    ELSE 0

\* filepath.Base of a clean path.
Base(path) == SubSeq(path, LastSeparator(path) + 1, Len(path))


(***************************************************************************)
(* The quarantine store.                                                    *)
(***************************************************************************)
VARIABLES
    fs,         \* original path -> the entry there, or NoEntry
    qdirs,      \* quarantine root: destination name -> the subtree moved there
    sidecars,   \* quarantine root: destination name -> bytes of <name>.meta.json
    now,        \* the wall clock, in ticks
    pc,         \* "idle", or the position inside quarantineCandidates
    todo,       \* candidates quarantineCandidates has still to process
    cur,        \* destination name of the candidate just moved
    last,       \* outcome of the operation that has just completed, until the next step
    removed,    \* history: the subtrees quarantine took from their paths, not restored and not
                \* selected by a purge since
    batch,      \* history: the Quarantine call under way, its candidates and the names it generated
    faults,     \* filesystem calls that have failed so far
    created,    \* entries the environment has created so far
    rootExists  \* whether the quarantine directory exists

storeVars == <<fs, qdirs, sidecars, now, pc, todo, cur, last, removed, batch, faults, created,
               rootExists>>

\* The size aggregator: one call of Calculator.CalculateSizes.
VARIABLES
    candidates,     \* the argument of CalculateSizes
    concurrency,    \* the argument of NewCalculator
    layout,         \* what the subtree of /a/node_modules holds besides regular files
    call,           \* "new", "running" or "returned"
    ctxDone,        \* the caller's context has been cancelled or has timed out
    jobs,           \* the buffered channel of indices
    jobsClosed,     \* close(jobs) has run
    sent,           \* how many indices the producer goroutine has sent
    producer,       \* "running" or "done"
    waiting,        \* how many workers are at their select statement
    summing,        \* the indices workers are summing at the moment
    results,        \* the shared result slice
    groupErr,       \* the first error a worker has returned to the errgroup
    order,          \* history: the indices in the order their sums completed
    ret             \* what CalculateSizes has returned

sizeVars == <<candidates, concurrency, layout, call, ctxDone, jobs, jobsClosed, sent, producer,
              waiting, summing, results, groupErr, order, ret>>

\* The scanner: one call of Scanner.ScanPaths.
VARIABLES
    config,         \* config.Config as the scanner reads it
    disk,           \* what varies in the directory tree: symbolic links, unreadable directories
    scanned         \* what ScanPaths has returned, once it has

scanVars == <<config, disk, scanned>>

\* One call of Scanner.isPathExcluded.
VARIABLES
    query,          \* the path asked about
    verdict         \* what isPathExcluded has returned, once it has

pathVars == <<query, verdict>>

\* One call of FilterByMinSize.
VARIABLES
    minSizeMB,      \* the threshold argument, in megabytes
    unfiltered,     \* the candidates argument
    filtered        \* what FilterByMinSize has returned, once it has

filterVars == <<minSizeMB, unfiltered, filtered>>

\* One run of the scan or the clean command.
VARIABLES
    invocation,     \* the command line, the configuration and what the run meets
    ran             \* what the command has done, once it has returned

cmdVars == <<invocation, ran>>

\* One call of listQuarantinedItems on a quarantine directory.
VARIABLES
    qfiles,         \* the directory: its entries in os.ReadDir order, or that it cannot be read
    listed          \* what listQuarantinedItems has returned, once it has

listVars == <<qfiles, listed>>

\* The directories the scanner can report as candidates in this model.
PathANodeModules == <<"/", "a", "/", "node_modules">>
PathBNodeModules == <<"/", "b", "/", "node_modules">>
StorePaths == {PathANodeModules, PathBNodeModules}

NoEntry == [kind |-> "none"]
NoName == [stamp |-> 0 - 1, base |-> <<>>]

\* A directory or file: where and when it was created, and whether it holds anything.
DirEntry(home, gen, empty) == [kind |-> "dir", home |-> home, gen |-> gen, empty |-> empty]
FileEntry(home, gen) == [kind |-> "file", home |-> home, gen |-> gen, empty |-> TRUE]

\* time.Now().Format("20060102-150405"): the clock cut to whole seconds.
FormatStamp(t) == t \div TicksPerSecond

\* fmt.Sprintf("%s-%s", timestamp, baseName): the entry's name in the quarantine root.
DestName(t, path) == [stamp |-> FormatStamp(t), base |-> Base(path)]

\* Lexicographic rank of a basename, as os.ReadDir sorts file names.
BaseRank(base) == IF base = <<"node_modules">> THEN 1 ELSE 2

NameLess(a, b) ==
    \/ a.stamp < b.stamp
    \/ a.stamp = b.stamp /\ BaseRank(a.base) < BaseRank(b.base)

\* os.ReadDir: the names of a set, sorted by file name.
RECURSIVE ReadDirSorted(_)
ReadDirSorted(names) ==
    IF names = {} THEN <<>>
    ELSE LET first == CHOOSE x \in names : \A y \in names : x = y \/ NameLess(x, y)
         IN  <<first>> \o ReadDirSorted(names \ {first})

\* A file's bytes that are no JSON document.
Garbage == [json |-> FALSE]
ParseError == [parsed |-> FALSE]

\* json.MarshalIndent(meta): the time is written as an RFC 3339 string with a
\* fractional part, the other fields as they are.
MarshalMeta(meta) ==
    [json |-> TRUE,
     originalPath |-> meta.OriginalPath,
     quarantinePath |-> meta.QuarantinePath,
     timestamp |-> <<meta.Timestamp \div TicksPerSecond, meta.Timestamp % TicksPerSecond>>,
     sizeBytes |-> meta.SizeBytes]

\* json.Unmarshal(data, &meta).
UnmarshalMeta(data) ==
    IF ~data.json THEN ParseError
    ELSE [parsed |-> TRUE,
          OriginalPath |-> data.originalPath,
          QuarantinePath |-> data.quarantinePath,
          Timestamp |-> data.timestamp[1] * TicksPerSecond + data.timestamp[2],
          SizeBytes |-> data.sizeBytes]

\* The Metadata value writeMetadata builds.
NewMetadata(candidate, quarantinePath, t) ==
    [OriginalPath |-> candidate.Path,
     QuarantinePath |-> quarantinePath,
     Timestamp |-> t,
     SizeBytes |-> candidate.SizeBytes]

\* A map of the quarantine root with one file added (or replaced), and removed.
PutFile(files, name, content) ==
    [n \in DOMAIN files \cup {name} |-> IF n = name THEN content ELSE files[n]]
DropFile(files, name) == [n \in DOMAIN files \ {name} |-> files[n]]

\* rename(2) of a directory onto dst: an absent or empty directory is replaced,
\* anything else refuses the rename.
RenameOutcome(src, dst) ==
    IF src = NoEntry THEN "ENOENT"
    ELSE IF dst = NoEntry THEN "ok"
    ELSE IF dst.kind = "file" THEN "ENOTDIR"
    ELSE IF dst.empty THEN "ok"
    ELSE "ENOTEMPTY"

At(files, name) == IF name \in DOMAIN files THEN files[name] ELSE NoEntry

\* listQuarantinedItems: every sidecar that reads and parses, in ReadDir order.
RECURSIVE ParseAll(_, _)
ParseAll(names, files) ==
    IF names = <<>> THEN <<>>
    ELSE LET meta == UnmarshalMeta(files[Head(names)])
         IN  (IF meta.parsed THEN <<meta>> ELSE <<>>) \o ParseAll(Tail(names), files)

listQuarantinedItems(files) == ParseAll(ReadDirSorted(DOMAIN files), files)


\* The size the aggregator reports for a subtree of this model.
SizeOfEntry(entry) == IF entry.empty THEN 0 ELSE 1024

\* scan.Candidate, as far as the store reads it.
CandidateAt(path) == [Path |-> path, SizeBytes |-> SizeOfEntry(fs[path])]

\* The order in which a walk, or a report sorted by path, lists the directories.
PathRank(path) ==
    IF path = PathANodeModules THEN 1 ELSE 2

\* The paths of S as a sequence in that order.
RECURSIVE InPathOrder(_)
InPathOrder(S) ==
    IF S = {} THEN <<>>
    ELSE LET first == CHOOSE x \in S : \A y \in S : PathRank(x) <= PathRank(y)
         IN  <<first>> \o InPathOrder(S \ {first})

NoBatch == [mode |-> "", cands |-> <<>>, fromEmpty |-> FALSE, faultsBefore |-> 0,
            names |-> <<>>, outcomes |-> <<>>]
NoOutcome == [op |-> "none"]

\* Whether a call that can fail does: the run has MaxDisturbances disturbances at most.
FaultChoices == IF faults + created < MaxDisturbances THEN BOOLEAN ELSE {FALSE}

\* A loop that gives the batch up when a move fails.
AbortBatch(rest) == <<>>

\* The candidates still to be processed after a failed os.Rename: continue.
AfterFailedMove(rest) == rest

\* The loop of quarantineCandidates is done with a candidate, with the outcome
\* given (the error of os.Rename, or "stored", or "nometa" when writeMetadata
\* failed): it moves on to the candidates of rest, or returns nil after
\* "Quarantine complete.".
NextCandidate(names, outcome, rest) ==
    /\ todo' = rest
    /\ cur' = NoName
    /\ pc' = IF rest = <<>> THEN "idle" ELSE "move"
    /\ last' = IF rest = <<>>
                THEN [op |-> "quarantine", mode |-> batch.mode, cands |-> batch.cands,
                      fromEmpty |-> batch.fromEmpty,
                      faulted |-> faults' # batch.faultsBefore,
                      names |-> names,
                      outcomes |-> Append(batch.outcomes, outcome)]
                ELSE last
    /\ batch' = IF rest = <<>> THEN NoBatch
                 ELSE [batch EXCEPT !.names = names, !.outcomes = Append(@, outcome)]

StoreInit ==
    /\ fs \in {f \in [StorePaths -> {DirEntry(p, 0, e) : p \in StorePaths, e \in BOOLEAN}] :
                 \A p \in StorePaths : f[p].home = p}
    /\ qdirs = <<>>
    /\ sidecars = <<>>
    /\ now = 0
    /\ pc = "idle"
    /\ todo = <<>>
    /\ cur = NoName
    /\ last = NoOutcome
    /\ removed = {}
    /\ batch = NoBatch
    /\ faults = 0
    /\ created = 0
    /\ rootExists = FALSE

\* The values of delete.mode: the default, the unimplemented one, an unknown one.
ModeChoices == {"quarantine", "rm", "shred"}

\* A switch whose case "rm" moves the candidates to quarantine as well.
DispatchRmQuarantines(mode) ==
    IF mode \in {"quarantine", "rm"} THEN "quarantineCandidates" ELSE "unsupported"

\* The switch of EraseCandidates on e.cfg.Delete.Mode: the branch taken.
Dispatch(mode) ==
    IF mode = "quarantine" THEN "quarantineCandidates"
    ELSE IF mode = "rm" THEN "notImplemented"
    ELSE "unsupported"

\* EraseCandidates in a mode other than "quarantine": the error is returned.
EraseRefused ==
    /\ pc = "idle"
    /\ \E mode \in ModeChoices :
        /\ Dispatch(mode) # "quarantineCandidates"
        /\ last' = [op |-> "refused", mode |-> mode, err |-> Dispatch(mode)]
    /\ UNCHANGED <<fs, qdirs, sidecars, now, pc, todo, cur, removed, batch, faults, created>>
    /\ UNCHANGED <<rootExists, sizeVars, scanVars, pathVars, filterVars, cmdVars, listVars>>

\* EraseCandidates in mode "quarantine" entering quarantineCandidates with the
\* directories the scan reported: os.MkdirAll of the quarantine directory,
\* then the loop.
BeginQuarantine ==
    /\ pc = "idle"
    /\ \E mode \in ModeChoices, chosen \in SUBSET {p \in StorePaths : fs[p].kind = "dir"} \ {{}} :
        LET cands == InPathOrder(chosen) IN
        /\ Dispatch(mode) = "quarantineCandidates"
        /\ todo' = [i \in 1..Len(cands) |-> CandidateAt(cands[i])]
        /\ batch' = [mode |-> mode,
                     cands |-> cands,
                     fromEmpty |-> DOMAIN qdirs = {} /\ DOMAIN sidecars = {},
                     faultsBefore |-> faults,
                     names |-> <<>>,
                     outcomes |-> <<>>]
    /\ rootExists' = TRUE
    /\ pc' = "move"
    /\ last' = NoOutcome
    /\ UNCHANGED <<fs, qdirs, sidecars, now, cur, removed, faults, created>>
    /\ UNCHANGED <<sizeVars, scanVars, pathVars, filterVars, cmdVars, listVars>>

\* A loop that goes on to writeMetadata whatever os.Rename returned.
WritesMetadataAlways(outcome) == TRUE

\* Whether the loop reaches writeMetadata for a candidate: not after the
\* continue that follows a failed os.Rename.
WritesMetadata(outcome) == outcome = "ok"

\* One candidate of the loop: the destination name and os.Rename.
QuarantineMove ==
    /\ pc = "move"
    /\ LET candidate == Head(todo)
           destPath == DestName(now, candidate.Path)
           src == fs[candidate.Path]
       IN  \E fail \in FaultChoices :
            LET outcome == IF fail THEN "EXDEV" ELSE RenameOutcome(src, At(qdirs, destPath))
            IN  /\ faults' = IF fail THEN faults + 1 ELSE faults
                /\ IF outcome = "ok"
                   THEN /\ fs' = [fs EXCEPT ![candidate.Path] = NoEntry]
                        /\ qdirs' = PutFile(qdirs, destPath, src)
                        /\ removed' = removed \cup {src}
                   ELSE UNCHANGED <<fs, qdirs, removed>>
                /\ IF WritesMetadata(outcome)
                   THEN /\ cur' = destPath
                        /\ pc' = "meta"
                        /\ batch' = [batch EXCEPT !.names = Append(@, destPath)]
                        /\ UNCHANGED <<todo, last>>
                   ELSE NextCandidate(Append(batch.names, destPath), outcome,
                                      AfterFailedMove(Tail(todo)))
    /\ UNCHANGED <<sidecars, now, created>>
    /\ UNCHANGED <<rootExists, sizeVars, scanVars, pathVars, filterVars, cmdVars, listVars>>

\* A loop that says nothing when writeMetadata fails.
MetaOutcomeSilent(fail) == "stored"

\* What the loop reports after writeMetadata: on an error the line
\* "CRITICAL: failed to write metadata for ..." on standard error.
MetaOutcome(fail) == IF fail THEN "nometa" ELSE "stored"

\* The same candidate after a successful move: writeMetadata.
QuarantineMeta ==
    /\ pc = "meta"
    /\ \E fail \in FaultChoices :
        /\ faults' = IF fail THEN faults + 1 ELSE faults
        /\ sidecars' = IF fail THEN sidecars
                       ELSE PutFile(sidecars, cur,
                                    MarshalMeta(NewMetadata(Head(todo), cur, now)))
        /\ NextCandidate(batch.names, MetaOutcome(fail), Tail(todo))
    /\ UNCHANGED <<fs, qdirs, now, removed, created>>
    /\ UNCHANGED <<rootExists, sizeVars, scanVars, pathVars, filterVars, cmdVars, listVars>>

\* A restore that reports the sidecar removed and leaves it in place.
RestoreCleanupSkipped(files, quarantinePath) == files

\* os.Remove of the restored item's sidecar.
RestoreCleanup(files, quarantinePath) == DropFile(files, quarantinePath)

\* A restore that removes the sidecar although the move failed.
CleanupAfterFailedRename(files, quarantinePath) == DropFile(files, quarantinePath)

\* The sidecars after os.Rename has failed: runRestore returns the error
\* before it comes to os.Remove.
AfterFailedRename(files, quarantinePath) == files

\* runRestore with the item the user picks at the prompt.
Restore ==
    /\ pc = "idle"
    /\ LET items == listQuarantinedItems(sidecars)
       IN  \E idx \in 1..Len(items) : \E renameFail \in FaultChoices :
            LET selectedItem == items[idx]
                src == At(qdirs, selectedItem.QuarantinePath)
                dst == fs[selectedItem.OriginalPath]
                outcome == IF renameFail THEN "EIO" ELSE RenameOutcome(src, dst)
            IN  IF outcome = "ok"
                THEN \E removeFail \in FaultChoices :
                      /\ fs' = [fs EXCEPT ![selectedItem.OriginalPath] = src]
                      /\ qdirs' = DropFile(qdirs, selectedItem.QuarantinePath)
                      /\ sidecars' = IF removeFail THEN sidecars
                                     ELSE RestoreCleanup(sidecars, selectedItem.QuarantinePath)
                      /\ faults' = IF removeFail THEN faults + 1 ELSE faults
                      /\ removed' = removed \ {src}
                      /\ last' = [op |-> "restore", ok |-> TRUE,
                                  path |-> selectedItem.OriginalPath,
                                  name |-> selectedItem.QuarantinePath,
                                  metaRemoved |-> ~removeFail]
                ELSE /\ faults' = IF renameFail THEN faults + 1 ELSE faults
                     /\ last' = [op |-> "restore", ok |-> FALSE,
                                 path |-> selectedItem.OriginalPath,
                                 name |-> selectedItem.QuarantinePath,
                                 metaRemoved |-> FALSE]
                     /\ sidecars' = AfterFailedRename(sidecars, selectedItem.QuarantinePath)
                     /\ UNCHANGED <<fs, qdirs, removed>>
    /\ UNCHANGED <<now, pc, todo, cur, batch, created>>
    /\ UNCHANGED <<rootExists, sizeVars, scanVars, pathVars, filterVars, cmdVars, listVars>>

\* The zero time.Time: earlier than every timestamp.
ZeroTime == -1

\* time.Now().AddDate(0, 0, -days) when days > 0, else the zero time.
Cutoff(t, days) == IF days > 0 THEN t - days * TicksPerDay ELSE ZeroTime

\* A comparison that also takes a timestamp equal to the cutoff.
NotAfter(t, cutoff) == t <= cutoff

\* item.Timestamp.Before(cutoff)
Before(t, cutoff) == t < cutoff

\* The selection of runPurge.
ToPurge(items, days, cutoff) ==
    {items[i].QuarantinePath : i \in {k \in 1..Len(items) :
        days = 0 \/ Before(items[k].Timestamp, cutoff)}}

\* Sets of names whose deletion fails, within what is left of MaxDisturbances.
FailingSubsets(names, budget) == {S \in SUBSET names : Cardinality(S) <= budget}

\* A loop that gives up at a failure.
MetaDeletedUnlessFailure(toPurge, failDirs, failMeta) ==
    IF failDirs \cup failMeta = {} THEN toPurge ELSE {}

\* The sidecars the loop of runPurge deletes: os.Remove is called for every
\* selected item, whatever os.RemoveAll of its directory returned.
MetaDeleted(toPurge, failDirs, failMeta) == toPurge \ failMeta

\* runPurge with the --days flag and the user's answer to the prompt.
Purge ==
    /\ pc = "idle"
    /\ \E days \in (0 - 1)..MaxDays : \E confirmed \in BOOLEAN :
        LET items == listQuarantinedItems(sidecars)
            toPurge == ToPurge(items, days, Cutoff(now, days))
            budget == MaxDisturbances - faults - created
        IN  IF Len(items) = 0 \/ toPurge = {} \/ ~confirmed
            THEN /\ last' = NoOutcome
                 /\ UNCHANGED <<qdirs, sidecars, removed, faults>>
            ELSE \E failDirs \in FailingSubsets(toPurge \cap DOMAIN qdirs, budget) :
                 \E failMeta \in FailingSubsets(toPurge, budget - Cardinality(failDirs)) :
                    /\ qdirs' = [n \in DOMAIN qdirs \ (toPurge \ failDirs) |-> qdirs[n]]
                    /\ sidecars' = [n \in DOMAIN sidecars \ MetaDeleted(toPurge, failDirs, failMeta)
                                        |-> sidecars[n]]
                    /\ faults' = faults + Cardinality(failDirs) + Cardinality(failMeta)
                    /\ removed' = removed \ {qdirs[n] : n \in toPurge \cap DOMAIN qdirs}
                    /\ last' = [op |-> "purge", days |-> days, selected |-> toPurge,
                                faulted |-> failDirs \cup failMeta # {},
                                failDirs |-> failDirs, failMeta |-> failMeta]
    /\ UNCHANGED <<fs, now, pc, todo, cur, batch, created>>
    /\ UNCHANGED <<rootExists, sizeVars, scanVars, pathVars, filterVars, cmdVars, listVars>>

\* The environment (a build, the user) puts something at an original path again.
Recreate ==
    /\ pc = "idle"
    /\ faults + created < MaxDisturbances
    /\ \E p \in StorePaths :
        /\ fs[p] = NoEntry
        /\ \E e \in {DirEntry(p, created + 1, TRUE), DirEntry(p, created + 1, FALSE),
                     FileEntry(p, created + 1)} :
            fs' = [fs EXCEPT ![p] = e]
    /\ created' = created + 1
    /\ last' = NoOutcome
    /\ UNCHANGED <<qdirs, sidecars, now, pc, todo, cur, removed, batch, faults>>
    /\ UNCHANGED <<rootExists, sizeVars, scanVars, pathVars, filterVars, cmdVars, listVars>>

\* Time passes.
Tick ==
    /\ now < MaxTime
    /\ now' = now + 1
    /\ last' = NoOutcome
    /\ UNCHANGED <<fs, qdirs, sidecars, pc, todo, cur, removed, batch, faults, created>>
    /\ UNCHANGED <<rootExists, sizeVars, scanVars, pathVars, filterVars, cmdVars, listVars>>

(***************************************************************************)
(* The size aggregator.                                                     *)
(***************************************************************************)
PathBTarget == <<"/", "b", "/", "target">>

\* The directories a caller passes to CalculateSizes in this model.
SizePaths == {PathANodeModules, PathBNodeModules, PathBTarget}

\* The subtrees that are summed. /a/node_modules holds a.js and lib/b.js;
\* the layout adds a symbolic link lib/link, makes lib unreadable (permission
\* denied, or an I/O error), or lets b.js vanish after lib was listed.
PathALib == Join(PathANodeModules, <<"lib">>)
Layouts == {"plain", "symlink", "denied", "io", "gone"}

File(name, size) == [name |-> name, kind |-> "file", size |-> size]
Subdir(name) == [name |-> name, kind |-> "dir", size |-> 4096]
Symlink(name, target) == [name |-> name, kind |-> "symlink", size |-> Len(target)]

\* os.ReadDir inside filepath.WalkDir: the entries sorted by name, with what
\* info.Size() reports for each.
SizeReadDir(path) ==
    IF path = PathANodeModules THEN <<File(<<"a.js">>, 1024), Subdir(<<"lib">>)>>
    ELSE IF path = PathALib
         THEN <<File(<<"b.js">>, 2048)>> \o
              (IF layout = "symlink" THEN <<Symlink(<<"link">>, <<"b", ".", "j", "s">>)>> ELSE <<>>)
    ELSE IF path = PathBTarget THEN <<File(<<"out">>, 512)>>
    ELSE <<>>

\* The error of listing a directory, and whether d.Info() of an entry fails.
SizeReadDirError(path) ==
    IF path = PathALib /\ layout = "denied" THEN "permission"
    ELSE IF path = PathALib /\ layout = "io" THEN "io"
    ELSE "none"

InfoFails(path) == layout = "gone" /\ path = Join(PathALib, <<"b.js">>)

\* The callback's test of which entries add their info.Size(): !d.IsDir().
Counted(entry) == entry.kind # "dir"

\* filepath.WalkDir with the callback of calculateDirectorySize: totalSize,
\* and whether the walk ended with an error.
RECURSIVE SumDir(_)
RECURSIVE SumEntries(_, _)
SumDir(path) ==
    IF SizeReadDirError(path) = "permission" THEN [size |-> 0, err |-> FALSE]
    ELSE IF SizeReadDirError(path) # "none" THEN [size |-> 0, err |-> TRUE]
    ELSE SumEntries(path, SizeReadDir(path))

SumEntries(dir, entries) ==
    IF entries = <<>> THEN [size |-> 0, err |-> FALSE]
    ELSE LET entry == Head(entries)
             path == Join(dir, entry.name)
             own == IF Counted(entry) /\ ~InfoFails(path) THEN entry.size ELSE 0
             below == IF entry.kind = "dir" THEN SumDir(path) ELSE [size |-> 0, err |-> FALSE]
         IN  IF below.err THEN [size |-> own + below.size, err |-> TRUE]
             ELSE LET rest == SumEntries(dir, Tail(entries))
                  IN  [size |-> own + below.size + rest.size, err |-> rest.err]

\* calculateDirectorySize: totalSize and err of the walk.
calculateDirectorySize(dirPath) == SumDir(dirPath)

\* The fallback of NewCalculator.
DefaultConcurrency == 8

\* A constructor that always takes the fallback.
NewCalculatorFallbackOnly(n) == DefaultConcurrency

\* NewCalculator: the number of workers.
NewCalculator(n) == IF n <= 0 THEN DefaultConcurrency ELSE n

\* The zero scan.Candidate, which make([]scan.Candidate, n) fills the slice with.
ZeroCandidate == [Path |-> <<>>, SizeBytes |-> 0]

NotReturned == [done |-> FALSE, results |-> <<>>, err |-> "nil"]

\* A worker that writes its result at the position of completion.
SlotByCompletion(idx, completed) == Len(completed) + 1

\* The slot a worker writes the result for index idx to.
Slot(idx, completed) == idx

\* All sequences of distinct elements of S of length n.
RECURSIVE Arrangements(_, _)
Arrangements(S, n) ==
    IF n = 0 THEN {<<>>}
    ELSE {Append(a, x) : a \in Arrangements(S, n - 1), x \in S} \cap
         {a \in [1..n -> S] : \A i, j \in 1..n : i # j => a[i] # a[j]}

SizeIdle ==
    /\ layout = "plain"
    /\ call = "new"
    /\ ctxDone = FALSE
    /\ jobs = <<>>
    /\ jobsClosed = FALSE
    /\ sent = 0
    /\ producer = "done"
    /\ waiting = 0
    /\ summing = {}
    /\ results = <<>>
    /\ groupErr = "nil"
    /\ order = <<>>
    /\ ret = NotReturned

SizeInit ==
    /\ \E n \in 0..MaxCandidates :
        candidates \in {[i \in 1..n |-> [Path |-> a[i], SizeBytes |-> 0]] :
                            a \in Arrangements(SizePaths, n)}
    /\ concurrency \in (0 - 1)..MaxConcurrency
    /\ layout \in Layouts
    /\ call = "new"
    /\ ctxDone = FALSE
    /\ jobs = <<>>
    /\ jobsClosed = FALSE
    /\ sent = 0
    /\ producer = "done"
    /\ waiting = 0
    /\ summing = {}
    /\ results = <<>>
    /\ groupErr = "nil"
    /\ order = <<>>
    /\ ret = NotReturned

\* CalculateSizes up to g.Wait(): the early return for no candidates, else the
\* channel, the result slice, the workers and the producer goroutine.
CalculateSizes ==
    /\ call = "new"
    /\ IF Len(candidates) = 0
       THEN /\ call' = "returned"
            /\ ret' = [done |-> TRUE, results |-> candidates, err |-> "nil"]
            /\ UNCHANGED <<results, waiting, producer>>
       ELSE /\ call' = "running"
            /\ results' = [i \in 1..Len(candidates) |-> ZeroCandidate]
            /\ waiting' = NewCalculator(concurrency)
            /\ producer' = "running"
            /\ UNCHANGED ret
    /\ UNCHANGED <<candidates, concurrency, layout, ctxDone, jobs, jobsClosed, sent, summing,
                   groupErr, order>>
    /\ UNCHANGED <<storeVars, scanVars, pathVars, filterVars, cmdVars, listVars>>

\* The caller cancels the context, or its deadline passes.
Cancel ==
    /\ call # "returned"
    /\ ~ctxDone
    /\ ctxDone' = TRUE
    /\ UNCHANGED <<candidates, concurrency, layout, call, jobs, jobsClosed, sent, producer,
                   waiting, summing, results, groupErr, order, ret>>
    /\ UNCHANGED <<storeVars, scanVars, pathVars, filterVars, cmdVars, listVars>>

\* A producer that sends the first index every time.
FirstIndexAgain(n) == 1

\* The index the producer's loop over candidates sends after n others.
NextIndex(n) == n + 1

\* The producer's select takes the send, which the buffer always has room for.
ProducerSend ==
    /\ call = "running"
    /\ producer = "running"
    /\ sent < Len(candidates)
    /\ jobs' = Append(jobs, NextIndex(sent))
    /\ sent' = sent + 1
    /\ UNCHANGED <<candidates, concurrency, layout, call, ctxDone, jobsClosed, producer,
                   waiting, summing, results, groupErr, order, ret>>
    /\ UNCHANGED <<storeVars, scanVars, pathVars, filterVars, cmdVars, listVars>>

\* The producer's select takes ctx.Done(): it returns, and the deferred close runs.
ProducerCancelled ==
    /\ call = "running"
    /\ producer = "running"
    /\ sent < Len(candidates)
    /\ ctxDone
    /\ producer' = "done"
    /\ jobsClosed' = TRUE
    /\ UNCHANGED <<candidates, concurrency, layout, call, ctxDone, jobs, sent,
                   waiting, summing, results, groupErr, order, ret>>
    /\ UNCHANGED <<storeVars, scanVars, pathVars, filterVars, cmdVars, listVars>>

\* The producer's loop ends after the last index, and the deferred close runs.
ProducerClose ==
    /\ call = "running"
    /\ producer = "running"
    /\ sent = Len(candidates)
    /\ producer' = "done"
    /\ jobsClosed' = TRUE
    /\ UNCHANGED <<candidates, concurrency, layout, call, ctxDone, jobs, sent,
                   waiting, summing, results, groupErr, order, ret>>
    /\ UNCHANGED <<storeVars, scanVars, pathVars, filterVars, cmdVars, listVars>>

\* A worker's select takes ctx.Done(): it returns ctx.Err() to the errgroup.
WorkerCancelled ==
    /\ call = "running"
    /\ waiting > 0
    /\ ctxDone
    /\ waiting' = waiting - 1
    /\ groupErr' = "canceled"
    /\ UNCHANGED <<candidates, concurrency, layout, call, ctxDone, jobs, jobsClosed, sent, producer,
                   summing, results, order, ret>>
    /\ UNCHANGED <<storeVars, scanVars, pathVars, filterVars, cmdVars, listVars>>

\* A worker's select takes an index from the channel.
WorkerReceive ==
    /\ call = "running"
    /\ waiting > 0
    /\ jobs # <<>>
    /\ jobs' = Tail(jobs)
    /\ summing' = summing \cup {Head(jobs)}
    /\ waiting' = waiting - 1
    /\ UNCHANGED <<candidates, concurrency, layout, call, ctxDone, jobsClosed, sent, producer,
                   results, groupErr, order, ret>>
    /\ UNCHANGED <<storeVars, scanVars, pathVars, filterVars, cmdVars, listVars>>

\* A worker's select takes the receive from the closed, drained channel: it returns nil.
WorkerDone ==
    /\ call = "running"
    /\ waiting > 0
    /\ jobs = <<>>
    /\ jobsClosed
    /\ waiting' = waiting - 1
    /\ UNCHANGED <<candidates, concurrency, layout, call, ctxDone, jobs, jobsClosed, sent, producer,
                   summing, results, groupErr, order, ret>>
    /\ UNCHANGED <<storeVars, scanVars, pathVars, filterVars, cmdVars, listVars>>

\* A worker that returns the error of a sum to the errgroup.
FailOnSumError(err, current) == IF err THEN "io" ELSE current

\* The worker's empty branch for the error of a sum: the error the errgroup
\* holds is what it was.
AfterSumError(err, current) == current

\* A worker finishes a sum, writes the result and goes back to its select.
WorkerFinish ==
    /\ call = "running"
    /\ \E idx \in summing :
        LET sum == calculateDirectorySize(candidates[idx].Path)
        IN  /\ groupErr' = AfterSumError(sum.err, groupErr)
            /\ results' = [results EXCEPT ![Slot(idx, order)] =
                              [candidates[idx] EXCEPT !.SizeBytes = sum.size]]
            /\ summing' = summing \ {idx}
            /\ order' = Append(order, idx)
    /\ waiting' = waiting + 1
    /\ UNCHANGED <<candidates, concurrency, layout, call, ctxDone, jobs, jobsClosed, sent, producer,
                   ret>>
    /\ UNCHANGED <<storeVars, scanVars, pathVars, filterVars, cmdVars, listVars>>

\* The progress bar: created with a total of len(candidates) and incremented
\* once after every completed sum, it is complete when it has reached its
\* total. p.Wait() of a container made by mpb.New, which has no context of
\* its own, returns only when its bar is complete.
BarCompleted == Len(order) >= Len(candidates)

\* g.Wait() returns once every worker has, p.Wait() once the bar is complete,
\* and CalculateSizes returns.
Return ==
    /\ call = "running"
    /\ waiting = 0
    /\ summing = {}
    /\ BarCompleted
    /\ call' = "returned"
    /\ ret' = IF groupErr # "nil"
              THEN [done |-> TRUE, results |-> <<>>, err |-> groupErr]
              ELSE [done |-> TRUE, results |-> results, err |-> "nil"]
    /\ UNCHANGED <<candidates, concurrency, layout, ctxDone, jobs, jobsClosed, sent, producer,
                   waiting, summing, results, groupErr, order>>
    /\ UNCHANGED <<storeVars, scanVars, pathVars, filterVars, cmdVars, listVars>>

(***************************************************************************)
(* The scanner.                                                             *)
(***************************************************************************)
\* The directory tree of the scans: every directory, with the names os.ReadDir
\* returns for it, sorted by file name.
DirP == <<"/", "p">>
DirGit == Join(DirP, <<".git">>)
DirGitTarget == Join(DirGit, <<"target">>)
DirNodeModules == Join(DirP, <<"node_modules">>)
DirPkg == Join(DirNodeModules, <<"pkg">>)
DirPkgNodeModules == Join(DirPkg, <<"node_modules">>)
DirSrc == Join(DirP, <<"src">>)
DirSrcTarget == Join(DirSrc, <<"target">>)

Dirs == {DirP, DirGit, DirGitTarget, DirNodeModules, DirPkg, DirPkgNodeModules,
         DirSrc, DirSrcTarget}

ReadDir(path) ==
    IF path = DirP THEN << <<".git">>, <<"node_modules">>, <<"src">> >>
    ELSE IF path = DirGit THEN << <<"target">> >>
    ELSE IF path = DirNodeModules THEN << <<"pkg">> >>
    ELSE IF path = DirPkg THEN << <<"node_modules">> >>
    ELSE IF path = DirSrc THEN << <<"target">> >>
    ELSE <<>>

\* The values the configuration and the tree are drawn from.
ScanRoots == {DirP, DirNodeModules, DirPkg}
IncludeChoices == {<<"node_modules">>, <<"target">>, <<".git">>}
ExcludeChoices == {<<"node_modules">>, <<"src">>}
ExcludePathChoices == {DirSrc, DirNodeModules}
NothingFails == [path |-> <<>>, kind |-> "none"]
FailureChoices == {NothingFails, [path |-> DirSrc, kind |-> "permission"],
                   [path |-> DirSrc, kind |-> "io"]}
LinkChoices == {{}, {DirNodeModules}}

RECURSIVE SeqsUpTo(_, _)
SeqsUpTo(S, n) ==
    IF n = 0 THEN {<<>>}
    ELSE SeqsUpTo(S, n - 1) \cup
         {Append(q, x) : q \in {r \in SeqsUpTo(S, n - 1) : Len(r) = n - 1}, x \in S}

NotScanned == [done |-> FALSE, cands |-> <<>>, from |-> <<>>, err |-> FALSE]
NoCandidates == [cands |-> <<>>, err |-> FALSE]
ScanError == [cands |-> <<>>, err |-> TRUE]

\* The working directory that filepath.Abs resolves a relative path against.
Cwd == <<"/", "a">>

\* filepath.IsAbs
IsAbs(path) == path # <<>> /\ path[1] = Separator

\* filepath.Clean, as far as the paths of this model need it: a trailing
\* separator is dropped, except from the root "/".
Clean(path) ==
    IF Len(path) > 1 /\ path[Len(path)] = Separator
    THEN SubSeq(path, 1, Len(path) - 1) ELSE path

\* filepath.Abs
Abs(path) == IF IsAbs(path) THEN Clean(path) ELSE Clean(Join(Cwd, path))

\* s.excludePaths as NewScanner fills it: each configured path as written, and
\* its filepath.Abs.
excludePaths == config.ExcludePaths \cup {Abs(path) : path \in config.ExcludePaths}

\* A test that misses the excluded directory itself and finds only what lies below it.
isPathExcludedBelowOnly(path) ==
    \E excludePath \in excludePaths : HasPrefix(path, excludePath \o <<Separator>>)

\* A prefix test that leaves the separator out.
isPathExcludedRawPrefix(path) ==
    \/ path \in excludePaths
    \/ \E excludePath \in excludePaths : HasPrefix(path, excludePath)

\* isPathExcluded
isPathExcluded(path) ==
    \/ path \in excludePaths
    \/ \E excludePath \in excludePaths : HasPrefix(path, excludePath \o <<Separator>>)

VersionControlNames == {<<".git">>, <<".svn">>, <<".hg">>, <<".bzr">>}

\* A version control test that gives way to a name that is in includeNames.
isVersionControlDirUnlessIncluded(dirName) ==
    dirName \in VersionControlNames /\ dirName \notin config.IncludeNames

\* isVersionControlDir
isVersionControlDir(dirName) ==
    dirName \in VersionControlNames

\* filepath.Rel(absRootPath, path) for a path at or below the root.
Rel(root, path) ==
    IF path = root THEN <<".">> ELSE SubSeq(path, Len(root) + 2, Len(path))

\* strings.Count(relPath, separator), and 0 for ".".
Depth(root, path) ==
    LET relPath == Rel(root, path)
    IN  IF relPath = <<".">> THEN 0
        ELSE Cardinality({i \in DOMAIN relPath : relPath[i] = Separator})

\* A walk that takes a symbolic link for the directory it points to.
IsSymlinkNever(path) == FALSE

\* An entry that os.Lstat reports as a symbolic link: d.IsDir() is false for it.
IsSymlink(path) == path \in disk.links

\* An include branch that reports the directory and walks on into it.
OnIncludeDescend(path) == [dir |-> TRUE, cand |-> TRUE, next |-> "nil"]

\* The include branch of the callback: a candidate, and filepath.SkipDir.
OnInclude(path) == [dir |-> TRUE, cand |-> TRUE, next |-> "SkipDir"]

SkipDir == [dir |-> TRUE, cand |-> FALSE, next |-> "SkipDir"]

\* A depth check that lets one more level through.
TooDeepStrict(depth) == config.MaxDepth > 0 /\ depth > config.MaxDepth

\* The max depth check of the callback.
TooDeep(depth) == config.MaxDepth > 0 /\ depth >= config.MaxDepth

\* An exclude check that gives way to a name that is also in includeNames.
NameExcludedUnlessIncluded(dirName) ==
    dirName \in config.ExcludeNames /\ dirName \notin config.IncludeNames

\* The lookup of the directory name in s.excludeMap.
NameExcluded(dirName) == dirName \in config.ExcludeNames

\* The callback scanPath gives to filepath.WalkDir, called with a nil error.
visit(root, path) ==
    LET dirName == Base(path) IN
    IF IsSymlink(path) THEN [dir |-> FALSE, cand |-> FALSE, next |-> "nil"]
    ELSE IF TooDeep(Depth(root, path)) THEN SkipDir
    ELSE IF isPathExcluded(path) THEN SkipDir
    ELSE IF ~config.FollowSymlinks /\ IsSymlink(path) THEN SkipDir
    ELSE IF isVersionControlDir(dirName) THEN SkipDir
    ELSE IF NameExcluded(dirName) THEN SkipDir
    ELSE IF dirName \in config.IncludeNames THEN OnInclude(path)
    ELSE [dir |-> TRUE, cand |-> FALSE, next |-> "nil"]

\* The error of reading a directory's entries, if any.
ReadDirError(path) == IF disk.failing.path = path THEN disk.failing.kind ELSE "none"

\* filepath.WalkDir with that callback: the candidates in walk order, and
\* whether the walk ended with an error.
RECURSIVE WalkDir(_, _)
RECURSIVE WalkEntries(_, _, _)
WalkDir(root, path) ==
    LET v == visit(root, path)
        here == IF v.cand THEN <<path>> ELSE <<>>
    IN  IF ~v.dir \/ v.next = "SkipDir" THEN [cands |-> here, err |-> FALSE]
        ELSE IF ReadDirError(path) = "permission" THEN [cands |-> here, err |-> FALSE]
        ELSE IF ReadDirError(path) # "none" THEN ScanError
        ELSE LET below == WalkEntries(root, path, ReadDir(path))
             IN  [cands |-> here \o below.cands, err |-> below.err]

WalkEntries(root, dir, names) ==
    IF names = <<>> THEN NoCandidates
    ELSE LET first == WalkDir(root, Join(dir, Head(names)))
         IN  IF first.err THEN ScanError
             ELSE LET rest == WalkEntries(root, dir, Tail(names))
                  IN  [cands |-> first.cands \o rest.cands, err |-> rest.err]

\* scanPath
scanPath(rootPath) ==
    IF isPathExcluded(rootPath) THEN NoCandidates
    ELSE LET walked == WalkDir(rootPath, rootPath)
         IN  IF walked.err THEN ScanError ELSE walked

\* A loop that keeps what the roots before a failing one have reported.
RECURSIVE ScanAllKeepPartial(_)
ScanAllKeepPartial(roots) ==
    IF roots = <<>> THEN NoCandidates
    ELSE LET first == scanPath(Head(roots))
         IN  IF first.err THEN ScanError
             ELSE LET rest == ScanAllKeepPartial(Tail(roots))
                  IN  [cands |-> first.cands \o rest.cands, err |-> rest.err]

\* The loop of ScanPaths over the configured roots.
RECURSIVE ScanAll(_)
ScanAll(roots) ==
    IF roots = <<>> THEN NoCandidates
    ELSE LET first == scanPath(Head(roots))
         IN  IF first.err THEN ScanError
             ELSE LET rest == ScanAll(Tail(roots))
                  IN  IF rest.err THEN ScanError
                      ELSE [cands |-> first.cands \o rest.cands, err |-> FALSE]

\* History: for each candidate of the result, the root whose walk reported it.
RECURSIVE Origins(_)
Origins(roots) ==
    IF roots = <<>> THEN <<>>
    ELSE [i \in 1..Len(scanPath(Head(roots)).cands) |-> Head(roots)] \o Origins(Tail(roots))

ScanIdle == scanned = NotScanned

ScanInit ==
    /\ config \in [ScanPaths : SeqsUpTo(ScanRoots, MaxRoots) \ {<<>>},
                   IncludeNames : SUBSET IncludeChoices,
                   ExcludeNames : SUBSET ExcludeChoices,
                   ExcludePaths : SUBSET ExcludePathChoices,
                   MaxDepth : 0..MaxScanDepth,
                   FollowSymlinks : BOOLEAN]
    /\ disk \in [links : LinkChoices, failing : FailureChoices]
    /\ ScanIdle

\* Scanner.ScanPaths
ScanPaths ==
    /\ ~scanned.done
    /\ LET all == ScanAll(config.ScanPaths)
       IN  scanned' = [done |-> TRUE, cands |-> all.cands,
                       from |-> IF all.err THEN <<>> ELSE Origins(config.ScanPaths),
                       err |-> all.err]
    /\ UNCHANGED <<config, disk>>
    /\ UNCHANGED <<storeVars, sizeVars, pathVars, filterVars, cmdVars, listVars>>

(***************************************************************************)
(* Scanner.isPathExcluded on its own. The names b and bc are written as the *)
(* tokens of their letters, so that one is a textual prefix of the other.   *)
(***************************************************************************)
PathA == <<"/", "a">>
PathAB == <<"/", "a", "/", "b">>
PathABSlash == <<"/", "a", "/", "b", "/">>
PathABC == <<"/", "a", "/", "b", "/", "c">>
PathABc == <<"/", "a", "/", "b", "c">>
PathABcD == <<"/", "a", "/", "b", "c", "/", "d">>
PathX == <<"/", "x">>
RelativeB == <<"b">>
PathSlash == <<"/">>

\* The exclude entries and the paths asked about.
EntryChoices == {PathAB, PathABSlash, RelativeB, PathABcD, PathSlash}
QueryChoices == {PathSlash, PathA, PathAB, PathABC, PathABc, PathABcD, PathX}

NotAsked == [asked |-> FALSE, excluded |-> FALSE]

PathIdle ==
    /\ query = <<>>
    /\ verdict = NotAsked

\* A configuration of which only the exclude paths matter.
ConfigExcluding(paths) ==
    [ScanPaths |-> <<>>, IncludeNames |-> {}, ExcludeNames |-> {},
     ExcludePaths |-> paths, MaxDepth |-> 0, FollowSymlinks |-> FALSE]

PathInit ==
    /\ config \in {ConfigExcluding(paths) : paths \in SUBSET EntryChoices}
    /\ disk = [links |-> {}, failing |-> NothingFails]
    /\ scanned = NotScanned
    /\ query \in QueryChoices
    /\ verdict = NotAsked

\* s.isPathExcluded(query) on the scanner NewScanner built from config.
AskExcluded ==
    /\ ~verdict.asked
    /\ verdict' = [asked |-> TRUE, excluded |-> isPathExcluded(query)]
    /\ UNCHANGED <<query, scanVars>>
    /\ UNCHANGED <<storeVars, sizeVars, filterVars, cmdVars, listVars>>

(***************************************************************************)
(* FilterByMinSize: the candidates and the threshold are drawn in the      *)
(* initial state, and the one action applies the function.                  *)
(***************************************************************************)
MaxFilterLen == 3
MaxMinSizeMB == 2

\* The factor of int64(minSizeMB) * 1024 * 1024.
BytesPerMB == 1024 * 1024

\* The width of the signed word holding minSizeBytes. The code's word has 64
\* bits; TLC's integers have 32, so the word is modelled with IntBits
\* bits: a product wraps at 2^(IntBits-1) as the code's does at 2^63.
IntBits == 30
MaxInt == 2 ^ (IntBits - 1) - 1

\* Two's-complement wrap-around of an arithmetic result to IntBits bits.
Wrap(x) == ((x + MaxInt + 1) % (2 * (MaxInt + 1))) - (MaxInt + 1)

\* The least threshold whose byte count no longer fits the word.
OverflowMB == (MaxInt + 1) \div BytesPerMB

MinSizeChoices == ((0 - 1)..MaxMinSizeMB) \cup {OverflowMB}

FilterCandidates ==
    {[Path |-> path, SizeBytes |-> bytes] :
        path \in {PathANodeModules, PathBTarget},
        bytes \in {0, BytesPerMB - 1, BytesPerMB, 2 * BytesPerMB}}

NotFiltered == [done |-> FALSE, out |-> <<>>]

\* candidate.SizeBytes >= minSizeBytes
MeetsThreshold(sizeBytes, minSizeBytes) == sizeBytes >= minSizeBytes

\* The loop of FilterByMinSize: append each candidate that meets the
\* threshold to filtered.
RECURSIVE FilterLoop(_, _, _)
FilterLoop(rest, minSizeBytes, acc) ==
    IF rest = <<>> THEN acc
    ELSE FilterLoop(Tail(rest), minSizeBytes,
                    IF MeetsThreshold(Head(rest).SizeBytes, minSizeBytes)
                    THEN Append(acc, Head(rest))
                    ELSE acc)

FilterByMinSize(cands, minMB) ==
    IF minMB <= 0 THEN cands
    ELSE FilterLoop(cands, Wrap(minMB * BytesPerMB), <<>>)

FilterIdle ==
    /\ minSizeMB = 0
    /\ unfiltered = <<>>
    /\ filtered = NotFiltered

FilterInit ==
    /\ minSizeMB \in MinSizeChoices
    /\ unfiltered \in SeqsUpTo(FilterCandidates, MaxFilterLen)
    /\ filtered = NotFiltered

\* size.FilterByMinSize(candidates, Cfg.MinSizeMB)
ApplyFilter ==
    /\ ~filtered.done
    /\ filtered' = [done |-> TRUE, out |-> FilterByMinSize(unfiltered, minSizeMB)]
    /\ UNCHANGED <<minSizeMB, unfiltered>>
    /\ UNCHANGED <<storeVars, sizeVars, scanVars, pathVars, cmdVars, listVars>>

(***************************************************************************)
(* The commands scan and clean: the invocation is drawn in the initial     *)
(* state, and one action runs the command to its return.                    *)
(***************************************************************************)
MaxArgs == 1

PathUsr == <<"/", "usr">>
PathUsrSlash == <<"/", "usr", "/">>

\* config.GetProtectedPaths, three of its entries.
ProtectedPaths == {PathSlash, PathUsr, <<"/", "etc">>}

\* The roots given on the command line or configured as scanPaths.
RootChoices == {PathUsr, PathUsrSlash, DirP}

NotRun == [done |-> FALSE, err |-> "nil", roots |-> <<>>, prompted |-> FALSE,
           erased |-> FALSE]

\* checkScanPaths: whether filepath.Abs of a scan path equals filepath.Abs of a
\* protected path.
checkScanPaths(scanPaths) ==
    \E i \in DOMAIN scanPaths : \E protected \in ProtectedPaths :
        Abs(scanPaths[i]) = Abs(protected)

\* A flag that is off unless it is given.
dryRunOffUnlessGiven(flag) == flag = "true"

\* The global dryRun after flag parsing: BoolVar(&dryRun, "dry-run", true, ...).
dryRunValue(flag) == IF flag = "unset" THEN TRUE ELSE flag = "true"

\* Cfg.ScanPaths after "if len(paths) > 0 { Cfg.ScanPaths = paths }".
Override(paths, scanPaths) == IF Len(paths) > 0 THEN paths ELSE scanPaths

CmdIdle ==
    /\ invocation = [command |-> "none"]
    /\ ran = NotRun

CmdInit ==
    /\ invocation \in [command : {"scan", "clean"},
                       paths : SeqsUpTo(RootChoices, MaxArgs),
                       scanPaths : SeqsUpTo(RootChoices, MaxArgs) \ {<<>>},
                       dryRun : {"unset", "true", "false"},
                       yes : BOOLEAN,
                       format : {"table", "json", "csv"},
                       found : {"error", "none", "some"},
                       reportFails : BOOLEAN,
                       answer : {"y", "abort", "error"}]
    /\ ran = NotRun

\* What runClean does from the report on, with the candidates found.
CleanFrom(roots) ==
    LET isJSON == invocation.format = "json"
        atReport == [NotRun EXCEPT !.done = TRUE, !.roots = roots]
    IN  IF invocation.reportFails THEN [atReport EXCEPT !.err = "report"]
        ELSE IF dryRunValue(invocation.dryRun) THEN atReport
        ELSE IF ~invocation.yes /\ ~isJSON
        THEN IF invocation.answer = "error"
             THEN [atReport EXCEPT !.prompted = TRUE, !.err = "confirm"]
             ELSE IF invocation.answer = "abort"
             THEN [atReport EXCEPT !.prompted = TRUE]
             ELSE [atReport EXCEPT !.prompted = TRUE, !.erased = TRUE]
        ELSE [atReport EXCEPT !.erased = TRUE]

\* runClean: checkScanPaths on the configured paths, findCandidates on the
\* paths of the command line if there are any, the report, the dry-run
\* return, the confirmation, EraseCandidates.
runClean ==
    /\ ~ran.done
    /\ invocation.command = "clean"
    /\ ran' =
        IF checkScanPaths(invocation.scanPaths)
        THEN [NotRun EXCEPT !.done = TRUE, !.err = "protected"]
        ELSE LET roots == Override(invocation.paths, invocation.scanPaths)
             IN  IF invocation.found = "error"
                 THEN [NotRun EXCEPT !.done = TRUE, !.roots = roots, !.err = "scan"]
                 ELSE IF invocation.found = "none"
                 THEN [NotRun EXCEPT !.done = TRUE, !.roots = roots]
                 ELSE CleanFrom(roots)
    /\ UNCHANGED invocation
    /\ UNCHANGED <<storeVars, sizeVars, scanVars, pathVars, filterVars, listVars>>

\* runScan: the override of the scan paths, checkScanPaths, the scan and the
\* report.
runScan ==
    /\ ~ran.done
    /\ invocation.command = "scan"
    /\ ran' =
        LET roots == Override(invocation.paths, invocation.scanPaths)
        IN  IF checkScanPaths(roots)
            THEN [NotRun EXCEPT !.done = TRUE, !.err = "protected"]
            ELSE IF invocation.found = "error"
            THEN [NotRun EXCEPT !.done = TRUE, !.roots = roots, !.err = "scan"]
            ELSE IF invocation.found = "some" /\ invocation.reportFails
            THEN [NotRun EXCEPT !.done = TRUE, !.roots = roots, !.err = "report"]
            ELSE [NotRun EXCEPT !.done = TRUE, !.roots = roots]
    /\ UNCHANGED invocation
    /\ UNCHANGED <<storeVars, sizeVars, scanVars, pathVars, filterVars, listVars>>

(***************************************************************************)
(* listQuarantinedItems on a quarantine directory of any content: the      *)
(* directory is drawn in the initial state, and one action lists it.        *)
(***************************************************************************)
MaxListLen == 3

\* What an entry of the directory can be: a quarantined subtree, a sidecar
\* that parses, one that is no JSON, one that cannot be read, a file of
\* another name, a directory whose name ends in .meta.json.
FileKinds == {"subtree", "valid", "garbage", "unreadable", "other", "dirmeta"}

NotListed == [done |-> FALSE, items |-> <<>>, err |-> "nil"]

\* The name of the entry at position i, and the Metadata a sidecar there holds.
NameAt(i) == [stamp |-> i, base |-> <<"node_modules">>]
MetaAt(i) == NewMetadata([Path |-> PathANodeModules, SizeBytes |-> 1024], NameAt(i), i)

\* file.IsDir(), and strings.HasSuffix(file.Name(), ".meta.json").
IsDirKind(kind) == kind \in {"subtree", "dirmeta"}
HasMetaSuffix(kind) == kind \in {"valid", "garbage", "unreadable", "dirmeta"}

\* os.ReadFile(metaPath): the bytes, or that the read failed.
ReadFile(kind, i) ==
    IF kind = "unreadable" THEN [ok |-> FALSE, data |-> Garbage]
    ELSE IF kind = "valid" THEN [ok |-> TRUE, data |-> MarshalMeta(MetaAt(i))]
    ELSE [ok |-> TRUE, data |-> Garbage]

\* A loop that gives up at the first sidecar it cannot read or parse.
StopAtBadSidecar(end, i) == end + 1

\* After the warning about a sidecar: continue with the next entry.
AfterBadSidecar(end, i) == i + 1

\* The loop of listQuarantinedItems over the entries from position i on.
RECURSIVE ListLoop(_, _, _)
ListLoop(files, i, items) ==
    IF i > Len(files) THEN items
    ELSE IF IsDirKind(files[i]) \/ ~HasMetaSuffix(files[i])
    THEN ListLoop(files, i + 1, items)
    ELSE LET read == ReadFile(files[i], i)
             meta == UnmarshalMeta(read.data)
         IN  IF ~read.ok \/ ~meta.parsed
             THEN ListLoop(files, AfterBadSidecar(Len(files), i), items)
             ELSE ListLoop(files, i + 1, Append(items, meta))

\* listQuarantinedItems(quarantineDir), with the error of os.ReadDir.
listQuarantineDir(dir) ==
    IF dir.state = "missing" THEN [done |-> TRUE, items |-> <<>>, err |-> "nil"]
    ELSE IF dir.state = "denied" THEN [done |-> TRUE, items |-> <<>>, err |-> "readdir"]
    ELSE [done |-> TRUE, items |-> ListLoop(dir.files, 1, <<>>), err |-> "nil"]

ListIdle ==
    /\ qfiles = [state |-> "missing", files |-> <<>>]
    /\ listed = NotListed

ListInit ==
    /\ qfiles \in {[state |-> st, files |-> <<>>] : st \in {"missing", "denied"}} \cup
                  {[state |-> "ok", files |-> f] : f \in SeqsUpTo(FileKinds, MaxListLen)}
    /\ listed = NotListed

\* The listing that runRestore and runPurge start with.
List ==
    /\ ~listed.done
    /\ listed' = listQuarantineDir(qfiles)
    /\ UNCHANGED qfiles
    /\ UNCHANGED <<storeVars, sizeVars, scanVars, pathVars, filterVars, cmdVars>>

(***************************************************************************)
(* The specifications: one per subsystem, the others at rest.               *)
(***************************************************************************)
SizeAtRest ==
    /\ candidates = <<>>
    /\ concurrency = 1
    /\ SizeIdle

ScanAtRest ==
    /\ config = [ScanPaths |-> <<>>, IncludeNames |-> {}, ExcludeNames |-> {},
                 ExcludePaths |-> {}, MaxDepth |-> 0, FollowSymlinks |-> FALSE]
    /\ disk = [links |-> {}, failing |-> NothingFails]
    /\ ScanIdle

StoreAtRest ==
    /\ fs = [p \in StorePaths |-> DirEntry(p, 0, FALSE)]
    /\ qdirs = <<>>
    /\ sidecars = <<>>
    /\ now = 0
    /\ pc = "idle"
    /\ todo = <<>>
    /\ cur = NoName
    /\ last = NoOutcome
    /\ removed = {}
    /\ batch = NoBatch
    /\ faults = 0
    /\ created = 0
    /\ rootExists = FALSE

vars == <<storeVars, sizeVars, scanVars, pathVars, filterVars, cmdVars, listVars>>

Init == StoreInit /\ SizeAtRest /\ ScanAtRest /\ PathIdle /\ FilterIdle /\ CmdIdle /\ ListIdle


Next ==
    \/ EraseRefused
    \/ BeginQuarantine
    \/ QuarantineMove
    \/ QuarantineMeta
    \/ Restore
    \/ Purge
    \/ Recreate
    \/ Tick

Spec == Init /\ [][Next]_vars

InitSize == StoreAtRest /\ SizeInit /\ ScanAtRest /\ PathIdle /\ FilterIdle /\ CmdIdle /\ ListIdle

NextSize ==
    \/ CalculateSizes
    \/ Cancel
    \/ ProducerSend
    \/ ProducerCancelled
    \/ ProducerClose
    \/ WorkerCancelled
    \/ WorkerReceive
    \/ WorkerDone
    \/ WorkerFinish
    \/ Return

SpecSize == InitSize /\ [][NextSize]_vars

\* The same calls under the Go scheduler: the calling goroutine, the producer
\* goroutine and the workers each take a step they can take; the caller's
\* cancellation may or may not come.
SpecSizeFair ==
    /\ InitSize
    /\ [][NextSize]_vars
    /\ WF_vars(CalculateSizes \/ Return)
    /\ WF_vars(ProducerSend \/ ProducerCancelled \/ ProducerClose)
    /\ WF_vars(WorkerCancelled \/ WorkerReceive \/ WorkerDone \/ WorkerFinish)

InitScan == StoreAtRest /\ SizeAtRest /\ ScanInit /\ PathIdle /\ FilterIdle /\ CmdIdle /\ ListIdle

NextScan == ScanPaths

SpecScan == InitScan /\ [][NextScan]_vars

InitPath == StoreAtRest /\ SizeAtRest /\ PathInit /\ FilterIdle /\ CmdIdle /\ ListIdle

NextPath == AskExcluded

SpecPath == InitPath /\ [][NextPath]_vars

InitFilter == StoreAtRest /\ SizeAtRest /\ ScanAtRest /\ PathIdle /\ FilterInit /\ CmdIdle /\ ListIdle

NextFilter == ApplyFilter

SpecFilter == InitFilter /\ [][NextFilter]_vars

InitCmd == StoreAtRest /\ SizeAtRest /\ ScanAtRest /\ PathIdle /\ FilterIdle /\ CmdInit /\ ListIdle

NextCmd ==
    \/ runClean
    \/ runScan

SpecCmd == InitCmd /\ [][NextCmd]_vars

InitList == StoreAtRest /\ SizeAtRest /\ ScanAtRest /\ PathIdle /\ FilterIdle /\ CmdIdle /\ ListInit

NextList == List

SpecList == InitList /\ [][NextList]_vars

\* C18: in a delete mode other than "quarantine", EraseCandidates returns an
\* error and changes nothing: the quarantine directory is not created, no
\* candidate is moved, no sidecar is written; the loop of
\* quarantineCandidates only ever runs in mode "quarantine".
C18_OtherModesRefusedBeforeMutation ==
    /\ [](pc \in {"move", "meta"} => batch.mode = "quarantine")
    /\ [][last'.op = "refused" =>
            /\ last'.mode # "quarantine"
            /\ last'.err \in {"notImplemented", "unsupported"}
            /\ UNCHANGED <<fs, qdirs, sidecars, rootExists>>]_vars

\* A call in mode "rm" was refused while there was a directory to move and
\* no quarantine directory yet.
C18_Witness ==
    /\ last.op = "refused"
    /\ last.mode = "rm"
    /\ ~rootExists
    /\ \E p \in StorePaths : fs[p].kind = "dir"

(***************************************************************************)
(* FilterByMinSize: claims.                                                 *)
(***************************************************************************)
\* C17: FilterByMinSize(candidates, M) returns exactly the candidates whose
\* SizeBytes is at least M * 1024 * 1024, in their original order, and returns
\* all of them unchanged when M <= 0.
C17_FilterKeepsExactlyLargeEnough ==
    filtered.done =>
        filtered.out =
            IF minSizeMB <= 0 THEN unfiltered
            ELSE SelectSeq(unfiltered,
                           LAMBDA c : c.SizeBytes >= minSizeMB * BytesPerMB)

(***************************************************************************)
(* The quarantine store: claims.                                            *)
(***************************************************************************)
\* The sidecar of entry `name` parses and names `path` and `name`.
SidecarNames(name, path) ==
    /\ name \in DOMAIN sidecars
    /\ LET meta == UnmarshalMeta(sidecars[name])
       IN  /\ meta.parsed
           /\ meta.OriginalPath = path
           /\ meta.QuarantinePath = name

C2_QuarantineThenListAll ==
    (last.op = "quarantine" /\ last.fromEmpty /\ ~last.faulted) =>
        LET items == listQuarantinedItems(sidecars)
            n == Len(last.cands)
        IN  /\ Len(items) = n
            /\ {items[i].OriginalPath : i \in 1..Len(items)} =
               {last.cands[i] : i \in 1..n}
            /\ Cardinality(DOMAIN qdirs) = n
            /\ Cardinality(DOMAIN sidecars) = n

NoRepeat(names) == \A i, j \in DOMAIN names : i # j => names[i] # names[j]

\* C3: the destination names a Quarantine call generates for its candidates
\* are pairwise distinct, also for two candidates of one basename within one
\* second.
C3_DestinationNamesDistinct ==
    /\ NoRepeat(batch.names)
    /\ last.op = "quarantine" => NoRepeat(last.names)

\* C4: a Restore that succeeds (rename and sidecar removal) puts the
\* quarantined subtree back at the record's original path P, leaves no sidecar
\* for the item and no record of it in the listing; when no call has failed in
\* the run, that subtree is the one Quarantine took from P.
C4_QuarantineRestoreRoundTrip ==
    [][(last'.op = "restore" /\ last'.ok /\ last'.metaRemoved) =>
        LET P == last'.path
            name == last'.name
            items == listQuarantinedItems(sidecars')
        IN  /\ fs'[P] # NoEntry
            /\ fs'[P] = At(qdirs, name)
            /\ name \notin DOMAIN qdirs'
            /\ name \notin DOMAIN sidecars'
            /\ \A i \in 1..Len(items) : items[i].QuarantinePath # name
            /\ faults = 0 => fs'[P].home = P]_vars

C4_Witness ==
    /\ last.op = "restore" /\ last.ok /\ last.metaRemoved
    /\ fs[last.path].kind = "dir"
    /\ fs[last.path].home = last.path
    /\ ~fs[last.path].empty

C6_PurgeExactlyOlder ==
    [][(last'.op = "purge" /\ ~last'.faulted /\ last'.days >= 0) =>
        \A name \in DOMAIN sidecars :
            LET meta == UnmarshalMeta(sidecars[name])
            IN  meta.parsed =>
                IF last'.days = 0 \/ meta.Timestamp < now - last'.days * TicksPerDay
                THEN /\ meta.QuarantinePath \notin DOMAIN qdirs'
                     /\ name \notin DOMAIN sidecars'
                ELSE /\ name \in DOMAIN sidecars'
                     /\ sidecars'[name] = sidecars[name]
                     /\ At(qdirs', meta.QuarantinePath) = At(qdirs, meta.QuarantinePath)]_vars

\* A purge with a cutoff has deleted one item and kept another with its subtree.
C6_Witness ==
    /\ last.op = "purge" /\ ~last.faulted /\ last.days > 0
    /\ \E name \in DOMAIN sidecars :
        /\ name \in DOMAIN qdirs
        /\ name \notin last.selected

(***************************************************************************)
(* The size aggregator: claims.                                             *)
(***************************************************************************)
\* C7: a call whose context is cancelled, or times out, before every
\* candidate has been summed fails with a cancellation error and returns no
\* results, whatever the interleaving of producer, workers and cancellation.
C7_CancelledCallFailsWithoutResults ==
    (ctxDone /\ Len(order) < Len(candidates)) ~>
        (ret.done /\ ret.err = "canceled" /\ ret.results = <<>>)

\* C8: when the context is never cancelled, CalculateSizes returns a nil
\* error and a slice as long as its input with results[i].Path =
\* candidates[i].Path for every i, for every worker count and every order of
\* completion.
C8_OutputOrderIsInputOrder ==
    (ret.done /\ ~ctxDone) =>
        /\ ret.err = "nil"
        /\ Len(ret.results) = Len(candidates)
        /\ \A i \in 1..Len(candidates) : ret.results[i].Path = candidates[i].Path

\* A call that was never cancelled has returned after its sums completed in
\* another order than the input's.
C8_Witness ==
    /\ ret.done /\ ~ctxDone
    /\ Len(candidates) >= 2
    /\ order # [i \in 1..Len(candidates) |-> i]

\* The bytes of the regular files anywhere below path.
RECURSIVE RegularBytes(_)
RECURSIVE RegularBytesOf(_, _)
RegularBytes(path) == RegularBytesOf(path, SizeReadDir(path))

RegularBytesOf(dir, entries) ==
    IF entries = <<>> THEN 0
    ELSE LET entry == Head(entries)
         IN  (IF entry.kind = "file" THEN entry.size
              ELSE IF entry.kind = "dir" THEN RegularBytes(Join(dir, entry.name))
              ELSE 0) + RegularBytesOf(dir, Tail(entries))

\* C16: when every entry of the subtrees can be read, the size a completed,
\* never cancelled CalculateSizes reports for a candidate is the sum of the
\* byte lengths of the regular files at any depth below it, directories
\* adding nothing.
C16_SizeIsSumOfRegularFiles ==
    (ret.done /\ ~ctxDone /\ ret.err = "nil" /\ layout \in {"plain", "symlink"}) =>
        \A i \in 1..Len(ret.results) :
            ret.results[i].SizeBytes = RegularBytes(candidates[i].Path)

(***************************************************************************)
(* The scanner: claims.                                                     *)
(***************************************************************************)
\* path is root or lies below it.
Under(root, path) == path = root \/ HasPrefix(path, root \o <<Separator>>)

\* The directories from root down to path, both included.
Chain(root, path) == {d \in Dirs : Under(root, d) /\ Under(d, path)}

Occurrences(cands, path) == Cardinality({i \in DOMAIN cands : cands[i] = path})

\* The scan reports path exactly once, and nothing below it.
ReportedOnce(path) ==
    /\ Occurrences(scanned.cands, path) = 1
    /\ \A i \in DOMAIN scanned.cands :
        Under(path, scanned.cands[i]) => scanned.cands[i] = path

\* The rules that make the walk from root pass a directory by.
Pruned(root, d) ==
    \/ IsSymlink(d)
    \/ config.MaxDepth > 0 /\ Depth(root, d) >= config.MaxDepth
    \/ isPathExcluded(d)
    \/ isVersionControlDir(Base(d))
    \/ Base(d) \in config.ExcludeNames

\* C9, as stated: a scan of one root reports every directory at or below the
\* root whose basename is in includeNames, that is under no excluded path and
\* is no VCS directory, exactly once, and reports none of its descendants.
C9_IncludedReportedOnce ==
    (scanned.done /\ ~scanned.err /\ Len(config.ScanPaths) = 1) =>
        \A d \in Dirs \ disk.links :
            ( /\ Under(config.ScanPaths[1], d)
              /\ Base(d) \in config.IncludeNames
              /\ ~isPathExcluded(d)
              /\ ~isVersionControlDir(Base(d)) ) => ReportedOnce(d)

\* C9, amended: the same for every such directory that the walk reaches, that
\* is, when neither it nor a directory between the root and it is a symbolic
\* link, excluded by path or by name, a VCS directory or at a depth of maxDepth
\* or more, and no directory between the root and it is unreadable or has a
\* basename in includeNames itself.
C9_ReachedIncludedReportedOnce ==
    (scanned.done /\ ~scanned.err /\ Len(config.ScanPaths) = 1) =>
        LET root == config.ScanPaths[1] IN
        \A d \in Dirs :
            ( /\ Under(root, d)
              /\ Base(d) \in config.IncludeNames
              /\ \A a \in Chain(root, d) : ~Pruned(root, a)
              /\ \A a \in Chain(root, d) \ {d} :
                    /\ Base(a) \notin config.IncludeNames
                    /\ ReadDirError(a) = "none" ) => ReportedOnce(d)

\* A scan of /p has reported /p/node_modules, which holds another directory
\* named node_modules further down.
C9_Witness ==
    /\ scanned.done /\ ~scanned.err
    /\ config.ScanPaths = <<DirP>>
    /\ <<"node_modules">> \in config.IncludeNames
    /\ \A a \in Chain(DirP, DirNodeModules) : ~Pruned(DirP, a)
    /\ Occurrences(scanned.cands, DirNodeModules) = 1
    /\ ~Pruned(DirP, DirPkg) /\ ~Pruned(DirP, DirPkgNodeModules)

\* C10: no candidate of a ScanPaths result is equal to or a descendant of
\* another candidate of the same result, whatever the configured roots.
C10_CandidatesDisjoint ==
    (scanned.done /\ ~scanned.err) =>
        \A i, j \in DOMAIN scanned.cands :
            i # j => ~Under(scanned.cands[i], scanned.cands[j])

\* C11: no candidate has a basename that is in excludeNames, also when the
\* basename is in includeNames as well, and no candidate lies below a directory
\* of such a basename that the walk from its root would have had to descend into.
C11_ExcludePrecedesInclude ==
    scanned.done =>
        \A i \in DOMAIN scanned.cands :
            \A d \in Chain(scanned.from[i], scanned.cands[i]) :
                Base(d) \notin config.ExcludeNames

\* A scan has run over /p with node_modules in both name lists, and
\* /p/node_modules is not reported.
C11_Witness ==
    /\ scanned.done /\ ~scanned.err
    /\ config.ScanPaths = <<DirP>>
    /\ <<"node_modules">> \in config.IncludeNames \cap config.ExcludeNames
    /\ config.ExcludePaths = {} /\ config.MaxDepth = 0 /\ disk.links = {}
    /\ Occurrences(scanned.cands, DirNodeModules) = 0

\* C12: no candidate is equal to or lies under an excluded path, also when
\* its basename is in includeNames.
C12_ExcludedPathsNeverReported ==
    scanned.done =>
        \A i \in DOMAIN scanned.cands :
            \A e \in config.ExcludePaths : ~Under(e, scanned.cands[i])

\* A scan of /p has run with /p/node_modules excluded by path and
\* node_modules an include name that nothing else prunes.
C12_Witness ==
    /\ scanned.done /\ ~scanned.err
    /\ config.ScanPaths = <<DirP>>
    /\ DirNodeModules \in config.ExcludePaths
    /\ <<"node_modules">> \in config.IncludeNames \ config.ExcludeNames
    /\ config.MaxDepth = 0 /\ disk.links = {}
    /\ Occurrences(scanned.cands, DirNodeModules) = 0

\* How many directory levels path lies below root: the separators after the
\* root's own text.
Level(root, path) ==
    Cardinality({i \in (Len(root) + 1)..Len(path) : path[i] = Separator})

\* C13: with maxDepth = N > 0 every candidate lies at most N directory levels
\* below the root whose walk reported it, a direct child of the root being
\* one level below.
C13_CandidatesWithinMaxDepth ==
    (scanned.done /\ config.MaxDepth > 0) =>
        \A i \in DOMAIN scanned.cands :
            Level(scanned.from[i], scanned.cands[i]) <= config.MaxDepth

\* A scan of /p with maxDepth = 1 has reported /p/node_modules, one level
\* down, and not /p/src/target, two levels down, which nothing else prunes.
C13_Witness ==
    /\ scanned.done /\ ~scanned.err
    /\ config.ScanPaths = <<DirP>>
    /\ config.MaxDepth = 1
    /\ config.IncludeNames = {<<"node_modules">>, <<"target">>}
    /\ config.ExcludeNames = {} /\ config.ExcludePaths = {} /\ disk.links = {}
    /\ disk.failing = NothingFails
    /\ Occurrences(scanned.cands, DirNodeModules) = 1
    /\ Occurrences(scanned.cands, DirSrcTarget) = 0

\* C14: no candidate is named .git, .svn, .hg or .bzr, and no candidate lies
\* below a directory of such a name that the walk from its root would have had
\* to descend into, whatever the configuration.
C14_VersionControlNeverReported ==
    scanned.done =>
        \A i \in DOMAIN scanned.cands :
            \A d \in Chain(scanned.from[i], scanned.cands[i]) :
                Base(d) \notin {<<".git">>, <<".svn">>, <<".hg">>, <<".bzr">>}

\* A scan of /p has run with .git and target in includeNames and nothing
\* else pruning /p/.git, and neither /p/.git nor /p/.git/target is reported.
C14_Witness ==
    /\ scanned.done /\ ~scanned.err
    /\ config.ScanPaths = <<DirP>>
    /\ {<<".git">>, <<"target">>} \subseteq config.IncludeNames
    /\ config.ExcludeNames = {} /\ config.ExcludePaths = {} /\ config.MaxDepth = 0
    /\ Occurrences(scanned.cands, DirGit) = 0
    /\ Occurrences(scanned.cands, DirGitTarget) = 0
    /\ Occurrences(scanned.cands, DirSrcTarget) = 1

(***************************************************************************)
(* Scanner.isPathExcluded: claims.                                          *)
(***************************************************************************)
\* path has the text of entry, then a separator, at its start.
BeginsWithEntry(path, entry) ==
    /\ Len(path) > Len(entry)
    /\ \A k \in 1..Len(entry) : path[k] = entry[k]
    /\ path[Len(entry) + 1] = Separator

Matches(path, entries) ==
    \E entry \in entries : path = entry \/ BeginsWithEntry(path, entry)

\* C15, as stated: isPathExcluded(path) is true iff path equals a configured
\* exclude entry or begins with one followed by the separator.
C15_ExcludedIffConfiguredEntry ==
    verdict.asked => (verdict.excluded <=> Matches(query, config.ExcludePaths))

\* C15, amended: isPathExcluded(path) is true iff path equals an entry of the
\* scanner's exclude set, which holds every configured entry as written and
\* its absolute, cleaned form, or begins with one followed by the separator;
\* an entry /a/b excludes /a/b and /a/b/c and not /a/bc.
C15_ExcludedIffStoredEntry ==
    verdict.asked =>
        /\ verdict.excluded <=>
              Matches(query, config.ExcludePaths \cup {Abs(e) : e \in config.ExcludePaths})
        /\ config.ExcludePaths = {PathAB} =>
              (verdict.excluded <=> query \in {PathAB, PathABC})

\* isPathExcluded has been asked about /a/bc with /a/b the one exclude entry.
C15_Witness ==
    /\ verdict.asked
    /\ config.ExcludePaths = {PathAB}
    /\ query = PathABc
    /\ ~verdict.excluded

\* Candidate i of the batch that just ended has left its original path and the
\* quarantine holds a directory under the name the loop gave it, with a
\* sidecar that names it.
InQuarantine(i) ==
    /\ fs[last.cands[i]] = NoEntry
    /\ last.names[i] \in DOMAIN qdirs
    /\ qdirs[last.names[i]].kind = "dir"
    /\ SidecarNames(last.names[i], last.cands[i])

\* Candidate i was moved and its sidecar written, and no later candidate of the
\* batch was moved to the same destination name.
StoredAndKept(i) ==
    /\ last.outcomes[i] = "stored"
    /\ \A j \in (i + 1)..Len(last.outcomes) :
        last.names[j] = last.names[i] => last.outcomes[j] \notin {"stored", "nometa"}

\* C19: a failed move does not end the batch. When quarantineCandidates
\* returns, every candidate of the list has been attempted, whichever moves
\* failed, and each candidate that was moved and given its sidecar is in
\* quarantine with that sidecar.
C19_FailedMoveDoesNotAbortBatch ==
    last.op = "quarantine" =>
        /\ Len(last.outcomes) = Len(last.cands)
        /\ Len(last.names) = Len(last.cands)
        /\ \A i \in 1..Len(last.outcomes) : StoredAndKept(i) => InQuarantine(i)

\* The move of the first candidate failed and the second one is in quarantine.
C19_Witness ==
    /\ last.op = "quarantine"
    /\ Len(last.cands) = 2
    /\ last.outcomes[1] \notin {"stored", "nometa"}
    /\ last.outcomes[2] = "stored"
    /\ InQuarantine(2)

\* C20: a candidate whose os.Rename failed because the quarantine directory is
\* on another filesystem is in quarantine with its sidecar when the batch ends.
C20_CrossDeviceMoveFallsBack ==
    last.op = "quarantine" =>
        \A i \in 1..Len(last.outcomes) :
            last.outcomes[i] = "EXDEV" => InQuarantine(i)

\* C21: every record listQuarantinedItems returns refers to a subtree that
\* exists in the quarantine root: a sidecar left behind by a Restore or a
\* Purge whose subtree is gone is not listed.
C21_ListShowsNoPhantom ==
    LET items == listQuarantinedItems(sidecars)
    IN  \A i \in 1..Len(items) : items[i].QuarantinePath \in DOMAIN qdirs

\* The depth of a directory when the root is at depth 0 and every level below
\* it is one deeper: a direct child of the root is at depth 1.
DepthByLevel(root, path) == Level(root, path)

\* The depth of a directory as the separators of its path relative to the
\* root: the root and its direct children are at depth 0.
DepthBySeparators(root, path) ==
    IF path = root THEN 0 ELSE Level(root, path) - 1

Paired ==
    /\ \A name \in DOMAIN qdirs : name \in DOMAIN sidecars
    /\ \A name \in DOMAIN sidecars :
        LET meta == UnmarshalMeta(sidecars[name])
        IN  meta.parsed /\ meta.QuarantinePath = name /\ name \in DOMAIN qdirs

\* C26: between operations, as long as no filesystem call has been made to
\* fail, subtrees and sidecars of the quarantine root are paired one to one.
C26_PairedWhenNothingFails ==
    (pc = "idle" /\ faults = 0) => Paired

\* A restore has succeeded without any failure and left another pair behind.
C26_Witness ==
    /\ pc = "idle" /\ faults = 0
    /\ last.op = "restore" /\ last.ok
    /\ DOMAIN qdirs # {}
    /\ Paired

\* C23: a run of clean without the --dry-run flag, so with its default, does
\* not invoke EraseCandidates, whatever --yes, the format and the answer at
\* the prompt are.
C23_DefaultDryRunNeverErases ==
    (ran.done /\ invocation.command = "clean" /\ invocation.dryRun = "unset") =>
        ~ran.erased

\* A default run of clean with --yes has found candidates, reported them and
\* returned without an error.
C23_Witness ==
    /\ ran.done /\ ran.err = "nil"
    /\ invocation.command = "clean" /\ invocation.dryRun = "unset"
    /\ invocation.yes /\ invocation.found = "some"
    /\ ran.roots # <<>>
    /\ ~ran.erased

\* C24: clean invokes EraseCandidates only when --yes was passed or the user
\* has confirmed at the prompt.
C24_ErasesOnlyWhenConfirmed ==
    ran.erased =>
        \/ invocation.yes
        \/ ran.prompted /\ invocation.answer = "y"

\* The roots the command scans: the command-line paths when given, else the
\* configured scanPaths.
EffectiveRoots ==
    IF invocation.paths # <<>> THEN invocation.paths ELSE invocation.scanPaths

\* C25: when an effective scan root resolves to a protected path, scan and
\* clean fail with the protection error, having scanned and erased nothing.
C25_ProtectedRootsRefused ==
    (ran.done /\ \E i \in DOMAIN EffectiveRoots :
                        Clean(EffectiveRoots[i]) \in ProtectedPaths) =>
        /\ ran.err = "protected"
        /\ ran.roots = <<>>
        /\ ~ran.erased

\* The positions of the directory that hold a sidecar that reads and parses.
RECURSIVE ValidFrom(_)
ValidFrom(i) ==
    IF i > Len(qfiles.files) THEN <<>>
    ELSE (IF qfiles.files[i] = "valid" THEN <<i>> ELSE <<>>) \o ValidFrom(i + 1)

\* C22: on a directory that can be listed, listQuarantinedItems returns no
\* error whatever sidecars cannot be read or parsed; it returns the record of
\* every sidecar that reads and parses, in directory order, and no other; and
\* it leaves the directory as it is.
C22_BadSidecarsSkipped ==
    /\ [](listed.done /\ qfiles.state = "ok" =>
            /\ listed.err = "nil"
            /\ Len(listed.items) = Len(ValidFrom(1))
            /\ \A k \in 1..Len(listed.items) :
                LET i == ValidFrom(1)[k]
                IN  /\ listed.items[k].OriginalPath = MetaAt(i).OriginalPath
                    /\ listed.items[k].QuarantinePath = NameAt(i)
                    /\ listed.items[k].Timestamp = i
                    /\ listed.items[k].SizeBytes = 1024)
    /\ [][qfiles' = qfiles]_vars

\* A listing has returned the two valid sidecars around one that is no JSON.
C22_Witness ==
    /\ listed.done
    /\ qfiles.state = "ok"
    /\ qfiles.files = <<"valid", "garbage", "valid">>
    /\ Len(listed.items) = 2
    /\ listed.items[2].QuarantinePath = NameAt(3)

\* C28: once the context is cancelled, no worker takes a further index from
\* the channel and begins to sum it.
C28_NoDequeueAfterCancel ==
    [][ctxDone => summing' \subseteq summing]_vars

\* The indices of a sequence, as a set.
Range(q) == {q[i] : i \in DOMAIN q}

\* C29: every index is sent at most once and received by at most one worker:
\* the indices in the channel, those being summed and those whose slot has
\* been written are the indices sent so far, each in one place only, so that
\* no slot is written by two workers or twice.
C29_EachIndexHandledOnce ==
    call = "running" =>
        /\ NoRepeat(jobs) /\ NoRepeat(order)
        /\ Range(jobs) \cap summing = {}
        /\ Range(jobs) \cap Range(order) = {}
        /\ summing \cap Range(order) = {}
        /\ Range(jobs) \cup summing \cup Range(order) = 1..sent
        /\ \A i \in 1..Len(candidates) :
            i \notin Range(order) => results[i] = ZeroCandidate

\* Two workers are summing the two candidates at the same time.
C29_Witness ==
    /\ call = "running"
    /\ Len(candidates) = 2
    /\ summing = {1, 2}

\* C30: at most W subtrees are being summed at any moment, W being the
\* configured concurrency when positive and 8 otherwise.
C30_AtMostWSumming ==
    Cardinality(summing) <= (IF concurrency > 0 THEN concurrency ELSE 8)

\* With concurrency 1, the one worker is summing while an index waits in the
\* channel.
C30_Witness ==
    /\ call = "running"
    /\ concurrency = 1
    /\ Cardinality(summing) = 1
    /\ jobs # <<>>

\* C31: under fair scheduling every call of CalculateSizes eventually
\* returns, cancelled or not: the producer closes the channel, every worker
\* exits, and the waits for the worker group and for the progress display
\* complete.
C31_EveryCallReturns == <>(call = "returned")

\* The part of the call up to the end of g.Wait(): the producer has closed
\* the channel and no worker is left.
GroupWaitOver ==
    \/ call = "returned"
    \/ /\ producer = "done" /\ jobsClosed
       /\ waiting = 0 /\ summing = {}

C31_GroupWaitCompletes == <>GroupWaitOver

\* The bytes of the regular files below path that can be read: not those of
\* a file that has vanished, nor those below a directory that cannot be listed.
RECURSIVE ReadableBytes(_)
RECURSIVE ReadableBytesOf(_, _)
ReadableBytes(path) ==
    IF SizeReadDirError(path) # "none" THEN 0
    ELSE ReadableBytesOf(path, SizeReadDir(path))

ReadableBytesOf(dir, entries) ==
    IF entries = <<>> THEN 0
    ELSE LET entry == Head(entries)
             path == Join(dir, entry.name)
         IN  (IF entry.kind = "file" /\ ~InfoFails(path) THEN entry.size
              ELSE IF entry.kind = "dir" THEN ReadableBytes(path)
              ELSE 0) + ReadableBytesOf(dir, Tail(entries))

\* C32: an entry that vanishes or cannot be read while a subtree is summed
\* adds 0 bytes and never makes CalculateSizes return an error: a call that
\* is not cancelled returns a nil error, the error of one candidate's sum is
\* ignored, and every candidate whose walk ended without error, the other
\* candidates included, is reported with the bytes of its files that can be
\* read; a walk that ended with an error reports what it had summed till then.
C32_UnreadableEntriesAddNothing ==
    ret.done =>
        /\ ret.err = "nil" \/ (ret.err = "canceled" /\ ctxDone)
        /\ (ret.err = "nil" /\ layout # "symlink") =>
               \A i \in 1..Len(candidates) :
                   IF calculateDirectorySize(candidates[i].Path).err
                   THEN ret.results[i].SizeBytes <= ReadableBytes(candidates[i].Path)
                   ELSE ret.results[i].SizeBytes = ReadableBytes(candidates[i].Path)

\* A call has returned two sizes, one of them of the subtree whose directory
\* lib fails to be listed with an I/O error.
C32_Witness ==
    /\ ret.done /\ ret.err = "nil"
    /\ layout = "io"
    /\ Len(candidates) = 2
    /\ \E i \in 1..2 : /\ candidates[i].Path = PathANodeModules
                       /\ calculateDirectorySize(PathANodeModules).err
                       /\ ret.results[i].SizeBytes = 1024
                       /\ ret.results[3 - i].SizeBytes > 0

\* C33: in quarantineCandidates the sidecar of an item is written only after
\* the move of that item has succeeded: a sidecar is written only for the
\* candidate that has just been moved, which is gone from its original path
\* and present in the quarantine root under the sidecar's name; a failed move
\* writes no sidecar and leaves the source where it is.
C33_SidecarOnlyAfterMove ==
    [][/\ (pc \in {"move", "meta"} /\ sidecars' # sidecars) =>
            /\ pc = "meta"
            /\ fs[Head(todo).Path] = NoEntry
            /\ cur \in DOMAIN qdirs
            /\ cur.base = Base(Head(todo).Path)
            /\ DOMAIN sidecars' = DOMAIN sidecars \cup {cur}
            /\ \A n \in DOMAIN sidecars \ {cur} : sidecars'[n] = sidecars[n]
            /\ UnmarshalMeta(sidecars'[cur]).OriginalPath = Head(todo).Path
            /\ UnmarshalMeta(sidecars'[cur]).QuarantinePath = cur
       /\ (pc = "move" /\ todo' # todo) =>
            /\ sidecars' = sidecars
            /\ fs' = fs
            /\ qdirs' = qdirs
            /\ fs[Head(todo).Path].kind = "dir"]_vars

\* The move of the first candidate has failed and the second candidate has
\* been moved; its sidecar is not written yet.
C33_Witness ==
    /\ pc = "meta"
    /\ batch.outcomes = <<"EXDEV">>
    /\ fs[batch.cands[1]] # NoEntry
    /\ cur \in DOMAIN qdirs
    /\ cur \notin DOMAIN sidecars

\* C34: when writeMetadata fails after a successful move, the failure is
\* reported (the outcome of the candidate is the critical message, not that of
\* a stored item), the moved subtree stays in the quarantine root, no sidecar
\* is written for it, nothing is moved back or deleted, and the loop goes on
\* with the remaining candidates.
C34_FailedSidecarWriteIsReported ==
    [][(pc = "meta" /\ faults' # faults) =>
            /\ cur \in DOMAIN qdirs
            /\ qdirs' = qdirs
            /\ fs' = fs
            /\ fs[Head(todo).Path] = NoEntry
            /\ sidecars' = sidecars
            /\ todo' = Tail(todo)
            /\ pc' = (IF Tail(todo) = <<>> THEN "idle" ELSE "move")
            /\ LET outcomes == IF Tail(todo) = <<>> THEN last'.outcomes ELSE batch'.outcomes
               IN  /\ Len(outcomes) = Len(batch.outcomes) + 1
                   /\ outcomes[Len(outcomes)] = "nometa"]_vars

\* A batch of two has ended: the first candidate's sidecar could not be
\* written, the second candidate was stored, and both are in the quarantine root.
C34_Witness ==
    /\ last.op = "quarantine"
    /\ last.outcomes = <<"nometa", "stored">>
    /\ \A i \in 1..2 : last.names[i] \in DOMAIN qdirs
    /\ last.names[1] \notin DOMAIN sidecars
    /\ last.names[2] \in DOMAIN sidecars

\* C35: in runPurge a failure to delete the directory or the sidecar of one
\* selected item does not stop the purge: every other deletion, that of the
\* other member of the pair and those of the other selected items, is made.
C35_PurgeFailureDoesNotStopPurge ==
    last.op = "purge" =>
        \A n \in last.selected :
            /\ n \notin last.failDirs => n \notin DOMAIN qdirs
            /\ n \notin last.failMeta => n \notin DOMAIN sidecars

\* A purge of two items in which the directory of one could not be deleted:
\* its sidecar and the whole other item are gone.
C35_Witness ==
    /\ last.op = "purge"
    /\ Cardinality(last.selected) = 2
    /\ \E n \in last.selected :
          /\ last.failDirs = {n}
          /\ n \in DOMAIN qdirs
          /\ DOMAIN sidecars \cap last.selected = {}
          /\ DOMAIN qdirs \cap last.selected = {n}

\* C40: runPurge never deletes a sidecar while its directory is still in the
\* quarantine root: a selected item whose directory could not be deleted
\* keeps its sidecar.
C40_PurgeKeepsSidecarOfUndeletedDir ==
    last.op = "purge" =>
        \A n \in last.selected : n \in DOMAIN qdirs => n \in DOMAIN sidecars

\* The walk from root comes to list the directory that fails with an error
\* other than a permission error: the root is not excluded, and no directory
\* from the root down to the failing one is passed by or reported.
WalkFails(root) ==
    /\ disk.failing.kind = "io"
    /\ ~isPathExcluded(root)
    /\ Under(root, disk.failing.path)
    /\ \A a \in Chain(root, disk.failing.path) :
          ~Pruned(root, a) /\ Base(a) \notin config.IncludeNames

\* What the roots report one after the other.
RECURSIVE CandidatesInRootOrder(_)
CandidatesInRootOrder(roots) ==
    IF roots = <<>> THEN <<>>
    ELSE scanPath(Head(roots)).cands \o CandidatesInRootOrder(Tail(roots))

\* C36: ScanPaths is all or nothing: when the walk of any root ends with an
\* error that is no permission error, it returns the error and no candidate
\* at all, none of the roots scanned before either; otherwise it returns the
\* candidates of every root, concatenated in the order of the roots.
C36_ScanPathsAllOrNothing ==
    scanned.done =>
        IF \E i \in DOMAIN config.ScanPaths : WalkFails(config.ScanPaths[i])
        THEN scanned.err /\ scanned.cands = <<>>
        ELSE ~scanned.err /\ scanned.cands = CandidatesInRootOrder(config.ScanPaths)

\* The first of two roots was scanned without error and had a candidate, the
\* walk of the second failed.
C36_Witness ==
    /\ scanned.done /\ scanned.err
    /\ Len(config.ScanPaths) = 2
    /\ ~WalkFails(config.ScanPaths[1])
    /\ scanPath(config.ScanPaths[1]).cands # <<>>
    /\ WalkFails(config.ScanPaths[2])

\* C37: with followSymlinks = false a symbolic link is never reported as a
\* candidate and never descended into, also when its name is in includeNames
\* and it points to a directory: no candidate is a link, and a candidate lies
\* below a link only when the root it was found from was given below that
\* link already.
C37_LinksNeitherReportedNorEntered ==
    (scanned.done /\ ~config.FollowSymlinks) =>
        \A i \in DOMAIN scanned.cands : \A link \in disk.links :
            /\ scanned.cands[i] # link
            /\ Under(link, scanned.cands[i]) =>
                  (scanned.from[i] # link /\ Under(link, scanned.from[i]))

\* The rules other than the one for symbolic links that make the walk from
\* root pass a directory by.
PrunedOtherwise(root, d) ==
    \/ config.MaxDepth > 0 /\ Depth(root, d) >= config.MaxDepth
    \/ isPathExcluded(d)
    \/ isVersionControlDir(Base(d))
    \/ Base(d) \in config.ExcludeNames

\* The walk from /p comes to the link /p/node_modules, whose name is in
\* includeNames, and no other rule passes it by.
ReachesIncludedLink ==
    /\ scanned.done /\ ~scanned.err
    /\ config.ScanPaths = <<DirP>>
    /\ disk.links = {DirNodeModules}
    /\ <<"node_modules">> \in config.IncludeNames
    /\ ~PrunedOtherwise(DirP, DirP)
    /\ ~PrunedOtherwise(DirP, DirNodeModules)

\* Such a scan without followSymlinks: the link is not reported, nor what is
\* below it.
C37_Witness ==
    /\ ReachesIncludedLink
    /\ ~config.FollowSymlinks
    /\ \A i \in DOMAIN scanned.cands : ~Under(DirNodeModules, scanned.cands[i])

\* C38: with followSymlinks = true a symbolic link that points to a directory
\* is treated like a directory: it is reported as a candidate when its name
\* is in includeNames.
C38_FollowedLinkIsCandidate ==
    (ReachesIncludedLink /\ config.FollowSymlinks) =>
        \E i \in DOMAIN scanned.cands : scanned.cands[i] = DirNodeModules

\* C39: when the os.Rename of runRestore fails, the quarantine is as it was:
\* the directory stays at QuarantinePath, its sidecar is not deleted, nothing
\* is created at OriginalPath, and the list still has the record.
C39_FailedRestoreChangesNothing ==
    [][(pc = "idle" /\ last'.op = "restore" /\ ~last'.ok) =>
            /\ qdirs' = qdirs
            /\ sidecars' = sidecars
            /\ fs' = fs
            /\ last'.name \in DOMAIN sidecars'
            /\ \E i \in DOMAIN listQuarantinedItems(sidecars') :
                  /\ listQuarantinedItems(sidecars')[i].QuarantinePath = last'.name
                  /\ listQuarantinedItems(sidecars')[i].OriginalPath = last'.path]_vars

\* A restore has failed because a file is in the way at the original path:
\* the directory is still in the quarantine root, with its sidecar.
C39_Witness ==
    /\ last.op = "restore" /\ ~last.ok
    /\ fs[last.path].kind = "file"
    /\ last.name \in DOMAIN qdirs
    /\ last.name \in DOMAIN sidecars

====
